---- MODULE Spec2Model ----
(***************************************************************************)
(* RpcDataProviderRemote: the remote half of the RPC data provider bridge. *)
(* The endpoint registers three receivers on an Rpc channel (initialize,   *)
(* getMessages, close), drives one DataProvider built by a factory, and    *)
(* forwards the provider's extension point callbacks as channel messages.  *)
(*                                                                         *)
(* The provider, the factory and the caller are the environment: what they *)
(* pass in or resolve with is drawn from small sets.  Every async handler  *)
(* is split where the code awaits (the provider's promise), nowhere else.  *)
(*                                                                         *)
(* useInitialDeepLinkState: the React hook that applies a deep link to the *)
(* session.  A render reads the hook's inputs and state; the effects whose *)
(* dependencies changed run after it, before the next render; fetchLayout  *)
(* is split at each of its awaits.  Calls of fetchLayout have no identity  *)
(* in the code: those in flight are kept as a bag of (arguments, position). *)
(* The hook and the endpoint share no state: each has its own              *)
(* specifications.                                                         *)
(***************************************************************************)
EXTENDS Integers, Sequences, FiniteSets, Bags, TLC

\* ---------------------------------------------------------------- bounds
MaxRequests == 3      \* requests the caller issues in one run
MaxCallbacks == 1     \* extension point slot invocations in one run
MaxLen == 2           \* records in one provider result (data specification)
MaxTime == 1          \* start and end range over 0..MaxTime (data specification)
MaxChanges == 2       \* renders in which the hook is given new inputs, in one run
MaxSeekChanges == 3   \* the same, where only player presence and seek function change

\* ---------------------------------------------------------------- values
\* A JavaScript field that may be missing, null, or hold an array.
Undefined == [tag |-> "undefined", items |-> <<>>]
Null == [tag |-> "null", items |-> <<>>]
Array(s) == [tag |-> "array", items |-> s]

Descriptors == {"D1", "D2"}
Metadata == {[name |-> "M1"], [name |-> "M2"]}
CallbackData == {[v |-> 1], [v |-> 2]}
LeanCallbackData == {[v |-> 1]}
Slots == {"progressCallback", "reportMetadataCallback", "notifyPlayerManager"}
Buffers == {"buf1", "buf2"}

\* A raw record: topic plus the ArrayBuffer (by identity) holding its bytes.
Records == [topic : {"topicA"}, message : Buffers]
Seqs(S, n) == UNION {[1..k -> S] : k \in 0..n}

ProviderError == [name |-> "Error", message |-> "provider failure"]
\* Calling a method on `provider` while it is still undefined.
TypeError(method) ==
  [name |-> "TypeError",
   message |-> IF method = "getMessages"
                 THEN "Cannot read properties of undefined (reading 'getMessages')"
                 ELSE "Cannot read properties of undefined (reading 'close')"]
ContractError ==
  [name |-> "Error",
   message |-> "RpcDataProvider only accepts raw messages (that still need to be parsed with ParseMessagesDataProvider)"]

\* What a provider's promise settles with.
Resolve(v) == [st |-> "resolve", value |-> v]
Reject(e) == [st |-> "reject", value |-> e]
Pending == [st |-> "pending", value |-> Undefined]
NoCall == [st |-> "none", value |-> Undefined]

\* What a receive handler ends with.
Return(v, t) == [st |-> "return", value |-> v, transferrables |-> t]
Throw(e) == [st |-> "throw", value |-> e, transferrables |-> <<>>]
Running == [st |-> "pending", value |-> Undefined, transferrables |-> <<>>]

\* getMessages results a provider may resolve with.
MessageBatch(raw, parsed, bobj) ==
  [rosBinaryMessages |-> raw, parsedMessages |-> parsed, bobjects |-> bobj]
OtherKinds == {Undefined, Null, Array(<<>>), Array(<<"obj">>)}
Results ==
  {MessageBatch(raw, parsed, bobj) :
     raw \in {Undefined, Null} \cup {Array(s) : s \in Seqs(Records, MaxLen)},
     parsed \in OtherKinds, bobj \in OtherKinds}
Rec(b) == [topic |-> "topicA", message |-> b]
LeanResults ==
  { MessageBatch(Array(<<Rec("buf1"), Rec("buf1")>>), Undefined, Undefined),
    MessageBatch(Array(<<Rec("buf2")>>), Undefined, Undefined),
    MessageBatch(Array(<<Rec("buf1")>>), Array(<<>>), Undefined),
    MessageBatch(Undefined, Undefined, Undefined) }

GetArgs(s, e, t) == [start |-> s, end |-> e, topics |-> t]
Args == {GetArgs(s, e, t) : s \in 0..MaxTime, e \in 0..MaxTime,
                           t \in {{"topicA"}, {"topicA", "topicB"}}}
LeanArgs == {GetArgs(1, 0, {"topicA", "topicB"})}

\* ---------------------------------------------------------------- deep link values
\* A string, a URL given by its path segments, and a playback time.
Str(x) == [tag |-> "string", items |-> <<x>>]
Url(path) == [tag |-> "url", items |-> path]
Time(sec) == [tag |-> "time", items |-> <<sec>>]

\* if (x): undefined, null and the empty string are falsy.
Truthy(x) == x.tag \notin {"undefined", "null"} /\ x # Str("")

DataPlatform == Str("foxglove-data-platform")
Params(eventId) == [tag |-> "params", items |-> <<eventId>>]

\* The deep links the hook is mounted with: a data source with its
\* parameters, a layout by id, by URL or both, and a time, each or none.
DataSources ==
  {[ds |-> Undefined, dsParams |-> Undefined],
   [ds |-> Str(""), dsParams |-> Undefined],
   [ds |-> DataPlatform, dsParams |-> Params(Str("event1"))],
   [ds |-> Str("ros1-local-bagfile"), dsParams |-> Undefined]}
LayoutIds == {Undefined, Str("layout1")}
LayoutUrls == {Undefined, Url(<<"layouts", "custom.json">>), Url(<<"Preset">>)}
Times == {Undefined, Time(5)}

\* What parseAppURLState gives for a deep link; NoState without a deep link.
NoState == [tag |-> "undefined"]
AppURLState(ds, dsParams, layoutId, layoutUrl, time) ==
  [tag |-> "state", ds |-> ds, dsParams |-> dsParams, layoutId |-> layoutId,
   layoutUrl |-> layoutUrl, time |-> time]
TargetUrlStates ==
  {NoState} \cup
  {AppURLState(source.ds, source.dsParams, layoutId, layoutUrl, time) :
     source \in DataSources, layoutId \in LayoutIds,
     layoutUrl \in LayoutUrls, time \in Times}
\* The deep links that carry a time: with or without a data source that
\* requires a current user, a layoutId and a layoutUrl.
SeekUrlStates ==
  {u \in TargetUrlStates :
     /\ u.tag = "state"
     /\ u.time = Time(5)
     /\ u.ds \in {Undefined, DataPlatform}
     /\ u.layoutUrl \in {Undefined, Url(<<"layouts", "custom.json">>)}}
\* The deep link of a render after the first, from the same deepLinks array
\* or from a new one: such a render reads the link's data source only, so
\* one link for each answer to `ds === "foxglove-data-platform"` stands for all.
LaterUrlStates ==
  {AppURLState(ds, Undefined, Undefined, Undefined, Undefined) :
     ds \in {DataPlatform, Str("ros1-local-bagfile")}}

\* PlayerPresence, and whether seekPlayback is a function (0: undefined).
PRESENT == "PRESENT"
PlayerPresences == {"NOT_PRESENT", "INITIALIZING", PRESENT}
SeekFunctions == 0..1
HookInputs ==
  [currentUser : BOOLEAN, playerPresence : PlayerPresences, seekPlayback : SeekFunctions]

\* ---------------------------------------------------------------- state
VARIABLES
  provider,   \* `let provider` of the constructor: 0 while unassigned, else an index
  providers,  \* the providers the factory has built, with the calls each received
  reqs,       \* the requests received, each with its handler's position
  replies,    \* the responses posted on the channel, by the request id that pairs them
  events,     \* the extensionPointCallback messages posted on the channel, in order
  calls,      \* every provider.getMessages call made, in order
  invoked     \* every extension point slot invocation made by a provider, in order

\* useInitialDeepLinkState, as one mounted instance of the hook.
VARIABLES
  unappliedUrlState,  \* useState: the portions of the deep link not yet applied
  fetchingLayout,     \* useState: a layoutUrl fetch was started
  updated,            \* setUnappliedUrlState was called since the last render
  rendered,           \* what the last render read: its inputs and its state
  changes,            \* how many renders after the first were given new inputs
  pending,            \* the effects of the last render that have yet to run
  fetches,            \* the fetchLayout calls in flight: a bag of (url, name, position)
  sourceCalls,        \* the selectSource and selectEvent calls made, in order
  layoutCalls,        \* the setSelectedLayoutId calls made, in order
  seekCalls           \* the seekPlayback calls made, in order

rpcVars == <<provider, providers, reqs, replies, events, calls, invoked>>
hookVars == <<unappliedUrlState, fetchingLayout, updated, rendered, changes,
              pending, fetches, sourceCalls, layoutCalls, seekCalls>>
vars == <<provider, providers, reqs, replies, events, calls, invoked,
          unappliedUrlState, fetchingLayout, updated, rendered, changes,
          pending, fetches, sourceCalls, layoutCalls, seekCalls>>

InitRpc ==
  /\ provider = 0
  /\ providers = <<>>
  /\ reqs = <<>>
  /\ replies = <<>>
  /\ events = <<>>
  /\ calls = <<>>
  /\ invoked = <<>>

\* The hook when it is not in use: no deep link, nothing rendered.
InitHookIdle ==
  /\ unappliedUrlState = NoState
  /\ fetchingLayout = FALSE
  /\ updated = FALSE
  /\ rendered = [currentUser |-> FALSE, playerPresence |-> "NOT_PRESENT",
                 seekPlayback |-> 0, currentUserRequired |-> FALSE,
                 fetchingLayout |-> FALSE, unappliedUrlState |-> NoState]
  /\ changes = 0
  /\ pending = {}
  /\ fetches = EmptyBag
  /\ sourceCalls = <<>>
  /\ layoutCalls = <<>>
  /\ seekCalls = <<>>

Init == InitRpc /\ InitHookIdle

\* ---------------------------------------------------------------- Rpc
\* Rpc.send(topic, data): one message posted on the channel.
RpcSend(topic, data) == [topic |-> topic, data |-> data]

\* Rpc's reply to a request whose handler has ended: the returned value with
\* its transfer list, or the error of a handler that threw or rejected.
RpcRespond(id, out) ==
  IF out.st = "throw"
    THEN [topic |-> "response", id |-> id,
          data |-> [ERROR |-> TRUE, name |-> out.value.name,
                    message |-> out.value.message],
          transfer |-> <<>>]
    ELSE [topic |-> "response", id |-> id, data |-> out.value,
          transfer |-> out.transferrables]

IsResponse(m) == m.topic = "response"
IsError(m) == IsResponse(m) /\ "ERROR" \in DOMAIN m.data
IsSuccess(m) == IsResponse(m) /\ ~("ERROR" \in DOMAIN m.data)

\* ---------------------------------------------------------------- handlers
\* Mutant: notifyPlayerManager is sent under reportMetadataCallback's tag.
ExtensionPointMistagged(slot, data) ==
  CASE slot = "progressCallback" ->
         RpcSend("extensionPointCallback", [type |-> "progressCallback", data |-> data])
    [] OTHER ->
         RpcSend("extensionPointCallback", [type |-> "reportMetadataCallback", data |-> data])

\* The extension point handed to provider.initialize: each slot sends one
\* extensionPointCallback message tagged with the slot's own name.
ExtensionPoint(slot, data) ==
  CASE slot = "progressCallback" ->
         RpcSend("extensionPointCallback", [type |-> "progressCallback", data |-> data])
    [] slot = "reportMetadataCallback" ->
         RpcSend("extensionPointCallback", [type |-> "reportMetadataCallback", data |-> data])
    [] slot = "notifyPlayerManager" ->
         RpcSend("extensionPointCallback", [type |-> "notifyPlayerManager", data |-> data])

\* getDataProvider(childDescriptor): a fresh provider, no call made on it yet.
GetDataProvider(childDescriptor) ==
  [desc |-> childDescriptor, initCalls |-> 0, closeCalls |-> 0]

\* Mutant: a reversed range is put in order before it is forwarded.
GetMessagesCallOrdered(start, end, topics) ==
  [start |-> IF start > end THEN end ELSE start,
   end |-> IF start > end THEN start ELSE end,
   filter |-> [rosBinaryMessages |-> topics]]

\* The arguments of provider.getMessages(start, end, {rosBinaryMessages: topics}).
GetMessagesCall(start, end, topics) ==
  [start |-> start, end |-> end, filter |-> [rosBinaryMessages |-> topics]]

\* x != null, for a field x of the provider's result.
NotNull(x) == x.tag \notin {"undefined", "null"}

\* const messagesToSend = rosBinaryMessages ?? [];
MessagesToSend(messages) ==
  IF NotNull(messages.rosBinaryMessages) THEN messages.rosBinaryMessages.items ELSE <<>>

\* Mutant: the check forgets bobjects.
ContractViolatedParsedOnly(messages) == NotNull(messages.parsedMessages)

\* if (parsedMessages != null || bobjects != null) throw ...
ContractViolated(messages) ==
  NotNull(messages.parsedMessages) \/ NotNull(messages.bobjects)

\* Mutant: the buffers are collected in an array, not a Set.
ArrayBuffersNoDedup(msgs) == [i \in 1..Len(msgs) |-> msgs[i].message]

\* The Set of message.message over messagesToSend, as Array.from lists it:
\* each buffer once, in the order of its first insertion.
RECURSIVE ArrayBuffers(_)
ArrayBuffers(msgs) ==
  IF msgs = <<>> THEN <<>>
  ELSE LET front == ArrayBuffers(SubSeq(msgs, 1, Len(msgs) - 1))
           last == msgs[Len(msgs)].message
       IN IF \E i \in 1..Len(front) : front[i] = last
            THEN front
            ELSE Append(front, last)

\* Mutant: the contract check is skipped when raw records are present.
GetMessagesResultLenient(messages) ==
  IF ContractViolated(messages) /\ ~NotNull(messages.rosBinaryMessages)
    THEN Throw(ContractError)
    ELSE Return([messages |-> MessagesToSend(messages)],
                ArrayBuffers(MessagesToSend(messages)))

\* Mutant: a result without rosBinaryMessages is a contract violation too.
GetMessagesResultStrict(messages) ==
  IF ContractViolated(messages) \/ ~NotNull(messages.rosBinaryMessages)
    THEN Throw(ContractError)
    ELSE Return([messages |-> MessagesToSend(messages)],
                ArrayBuffers(MessagesToSend(messages)))

\* The getMessages handler after its await: what it returns or throws for the
\* result the provider resolved with.
GetMessagesResult(messages) ==
  IF ContractViolated(messages)
    THEN Throw(ContractError)
    ELSE Return([messages |-> MessagesToSend(messages)],
                ArrayBuffers(MessagesToSend(messages)))

\* Mutant: a rejection is caught and the handler returns nothing.
AfterAwaitSwallowed(o, result) ==
  IF o.st = "reject" THEN Return(Undefined, <<>>) ELSE result

\* An awaited promise that rejects ends the handler with that error.
AfterAwait(o, result) == IF o.st = "reject" THEN Throw(o.value) ELSE result

\* Rpc's reply to a handler that has ended is a microtask, and a request is
\* a message, dispatched as a task of its own: every reply that is due has
\* been posted when the next request is received.  Settlements of provider
\* promises and slot invocations may come between a handler's end and its
\* reply.
NoReplyDue == \A r \in 1..Len(reqs) : reqs[r].pc # "settled"

Request(kind, arg, pc, prov, out) ==
  [kind |-> kind, arg |-> arg, pc |-> pc, prov |-> prov,
   res |-> IF pc = "awaiting" THEN Pending ELSE NoCall, out |-> out]

\* Mutant: the provider is built only while `provider` is unassigned; a
\* repeated initialize calls initialize again on the provider already held.
ReceiveInitializeOnce(childDescriptor) ==
  /\ NoReplyDue
  /\ Len(reqs) < MaxRequests
  /\ providers' = IF provider = 0
                    THEN Append(providers,
                           [GetDataProvider(childDescriptor) EXCEPT !.initCalls = @ + 1])
                    ELSE [providers EXCEPT ![provider].initCalls = @ + 1]
  /\ provider' = IF provider = 0 THEN Len(providers) + 1 ELSE provider
  /\ reqs' = Append(reqs, Request("initialize", [childDescriptor |-> childDescriptor],
                                  "awaiting", provider', Running))
  /\ replies' = Append(replies, <<>>)
  /\ UNCHANGED <<events, calls, invoked, hookVars>>

\* rpc.receive("initialize", ...): build the provider, keep it in `provider`,
\* call its initialize with the extension point; the handler then waits.
ReceiveInitialize(childDescriptor) ==
  /\ NoReplyDue
  /\ Len(reqs) < MaxRequests
  /\ providers' = Append(providers,
       [GetDataProvider(childDescriptor) EXCEPT !.initCalls = @ + 1])
  /\ provider' = Len(providers) + 1
  /\ reqs' = Append(reqs, Request("initialize", [childDescriptor |-> childDescriptor],
                                  "awaiting", provider', Running))
  /\ replies' = Append(replies, <<>>)
  /\ UNCHANGED <<events, calls, invoked, hookVars>>

\* Mutant: the handler calls provider.initialize again before it forwards
\* the request.
ReceiveGetMessagesReinitializes(a) ==
  /\ NoReplyDue
  /\ Len(reqs) < MaxRequests
  /\ IF provider = 0
       THEN /\ reqs' = Append(reqs, Request("getMessages", a, "settled", 0,
                                       Throw(TypeError("getMessages"))))
            /\ UNCHANGED <<calls, providers>>
       ELSE /\ reqs' = Append(reqs, Request("getMessages", a, "awaiting", provider, Running))
            /\ providers' = [providers EXCEPT ![provider].initCalls = @ + 1]
            /\ calls' = Append(calls,
                 [req |-> Len(reqs) + 1, prov |-> provider,
                  args |-> GetMessagesCall(a.start, a.end, a.topics)])
  /\ replies' = Append(replies, <<>>)
  /\ UNCHANGED <<provider, events, invoked, hookVars>>

\* Mutant: with no provider the request waits instead of failing.
ReceiveGetMessagesWaits(a) ==
  /\ NoReplyDue
  /\ Len(reqs) < MaxRequests
  /\ IF provider = 0
       THEN /\ reqs' = Append(reqs, Request("getMessages", a, "awaiting", 0, Running))
            /\ UNCHANGED calls
       ELSE /\ reqs' = Append(reqs, Request("getMessages", a, "awaiting", provider, Running))
            /\ calls' = Append(calls,
                 [req |-> Len(reqs) + 1, prov |-> provider,
                  args |-> GetMessagesCall(a.start, a.end, a.topics)])
  /\ replies' = Append(replies, <<>>)
  /\ UNCHANGED <<provider, providers, events, invoked, hookVars>>

\* rpc.receive("getMessages", ...) up to its await: forward the call to the
\* provider `provider` holds now; with no provider the call itself throws.
ReceiveGetMessages(a) ==
  /\ NoReplyDue
  /\ Len(reqs) < MaxRequests
  /\ IF provider = 0
       THEN /\ reqs' = Append(reqs, Request("getMessages", a, "settled", 0,
                                       Throw(TypeError("getMessages"))))
            /\ UNCHANGED calls
       ELSE /\ reqs' = Append(reqs, Request("getMessages", a, "awaiting", provider, Running))
            /\ calls' = Append(calls,
                 [req |-> Len(reqs) + 1, prov |-> provider,
                  args |-> GetMessagesCall(a.start, a.end, a.topics)])
  /\ replies' = Append(replies, <<>>)
  /\ UNCHANGED <<provider, providers, events, invoked, hookVars>>

\* Mutant: close is forwarded to the first provider the factory built.
ReceiveCloseFirst ==
  /\ NoReplyDue
  /\ Len(reqs) < MaxRequests
  /\ IF provider = 0
       THEN /\ reqs' = Append(reqs, Request("close", Undefined, "settled", 0,
                                       Throw(TypeError("close"))))
            /\ UNCHANGED providers
       ELSE /\ reqs' = Append(reqs, Request("close", Undefined, "awaiting", 1, Running))
            /\ providers' = [providers EXCEPT ![1].closeCalls = @ + 1]
  /\ replies' = Append(replies, <<>>)
  /\ UNCHANGED <<provider, events, calls, invoked, hookVars>>

\* rpc.receive("close", () => provider.close()).
ReceiveClose ==
  /\ NoReplyDue
  /\ Len(reqs) < MaxRequests
  /\ IF provider = 0
       THEN /\ reqs' = Append(reqs, Request("close", Undefined, "settled", 0,
                                       Throw(TypeError("close"))))
            /\ UNCHANGED providers
       ELSE /\ reqs' = Append(reqs, Request("close", Undefined, "awaiting", provider, Running))
            /\ providers' = [providers EXCEPT ![provider].closeCalls = @ + 1]
  /\ replies' = Append(replies, <<>>)
  /\ UNCHANGED <<provider, events, calls, invoked, hookVars>>

Awaiting(r, kind) ==
  /\ r \in 1..Len(reqs)
  /\ reqs[r].kind = kind
  /\ reqs[r].pc = "awaiting"

\* Mutant: the handler awaits initialize but does not return its value.
SettleInitializeNoReturn(r, o) ==
  /\ Awaiting(r, "initialize")
  /\ reqs' = [reqs EXCEPT ![r].pc = "settled", ![r].res = o,
                          ![r].out = AfterAwait(o, Return(Undefined, <<>>))]
  /\ UNCHANGED <<provider, providers, replies, events, calls, invoked, hookVars>>

\* provider.initialize settles: the handler returns the metadata it resolved with.
SettleInitialize(r, o) ==
  /\ Awaiting(r, "initialize")
  /\ reqs' = [reqs EXCEPT ![r].pc = "settled", ![r].res = o,
                          ![r].out = AfterAwait(o, Return(o.value, <<>>))]
  /\ UNCHANGED <<provider, providers, replies, events, calls, invoked, hookVars>>

\* Mutant: a rejected getMessages drops the provider.
SettleGetMessagesTearsDown(r, o) ==
  /\ Awaiting(r, "getMessages")
  /\ reqs' = [reqs EXCEPT ![r].pc = "settled", ![r].res = o,
                          ![r].out = AfterAwait(o, GetMessagesResult(o.value))]
  /\ provider' = IF o.st = "reject" THEN 0 ELSE provider
  /\ UNCHANGED <<providers, replies, events, calls, invoked, hookVars>>

\* Mutant: the handler keeps the first result a provider resolved with and
\* builds every later reply from it.
SettleGetMessagesKept(r, o) ==
  /\ Awaiting(r, "getMessages")
  /\ LET kept == {q \in 1..Len(reqs) :
                    reqs[q].kind = "getMessages" /\ reqs[q].res.st = "resolve"}
         value == IF kept = {} THEN o.value
                  ELSE reqs[CHOOSE q \in kept : \A k \in kept : q <= k].res.value
     IN reqs' = [reqs EXCEPT ![r].pc = "settled", ![r].res = o,
                             ![r].out = AfterAwait(o, GetMessagesResult(value))]
  /\ UNCHANGED <<provider, providers, replies, events, calls, invoked, hookVars>>

\* provider.getMessages settles: the rest of the handler runs on its result.
SettleGetMessages(r, o) ==
  /\ Awaiting(r, "getMessages")
  /\ reqs' = [reqs EXCEPT ![r].pc = "settled", ![r].res = o,
                          ![r].out = AfterAwait(o, GetMessagesResult(o.value))]
  /\ UNCHANGED <<provider, providers, replies, events, calls, invoked, hookVars>>

\* provider.close settles.
SettleClose(r, o) ==
  /\ Awaiting(r, "close")
  /\ reqs' = [reqs EXCEPT ![r].pc = "settled", ![r].res = o,
                          ![r].out = AfterAwait(o, Return(o.value, <<>>))]
  /\ UNCHANGED <<provider, providers, replies, events, calls, invoked, hookVars>>

\* Rpc answers a request whose handler has ended.
RpcReply(r) ==
  /\ r \in 1..Len(reqs)
  /\ reqs[r].pc = "settled"
  /\ replies' = [replies EXCEPT ![r] = Append(@, RpcRespond(r, reqs[r].out))]
  /\ reqs' = [reqs EXCEPT ![r].pc = "done"]
  /\ UNCHANGED <<provider, providers, events, calls, invoked, hookVars>>

InitializePending(p) ==
  \E r \in 1..Len(reqs) :
    reqs[r].kind = "initialize" /\ reqs[r].prov = p /\ reqs[r].pc = "awaiting"
CloseResolved(p) ==
  \E r \in 1..Len(reqs) :
    /\ reqs[r].kind = "close" /\ reqs[r].prov = p
    /\ reqs[r].pc = "done" /\ reqs[r].out.st = "return"
GetMessagesIssued == \E r \in 1..Len(reqs) : reqs[r].kind = "getMessages"

\* Mutant: a slot invoked while initialize is pending sends nothing.
ProviderCallbackDeferred(p, slot, data) ==
  /\ p \in 1..Len(providers)
  /\ providers[p].initCalls > 0
  /\ Len(invoked) < MaxCallbacks
  /\ events' = IF InitializePending(p) THEN events
                ELSE Append(events, ExtensionPoint(slot, data))
  /\ invoked' = Append(invoked, [prov |-> p, slot |-> slot, data |-> data])
  /\ UNCHANGED <<provider, providers, reqs, replies, calls, hookVars>>

\* A provider that was given the extension point invokes one of its slots;
\* the slot sends its message before it returns.
ProviderCallback(p, slot, data) ==
  /\ p \in 1..Len(providers)
  /\ providers[p].initCalls > 0
  /\ Len(invoked) < MaxCallbacks
  /\ events' = Append(events, ExtensionPoint(slot, data))
  /\ invoked' = Append(invoked, [prov |-> p, slot |-> slot, data |-> data])
  /\ UNCHANGED <<provider, providers, reqs, replies, calls, hookVars>>

\* ---------------------------------------------------------------- specifications
InitializeOutcomes == {Resolve(m) : m \in Metadata} \cup {Reject(ProviderError)}
LeanInitializeOutcomes == {Resolve([name |-> "M1"]), Reject(ProviderError)}
CloseOutcomes == {Resolve(Undefined), Reject(ProviderError)}
LeanOutcomes == {Resolve(m) : m \in LeanResults} \cup {Reject(ProviderError)}
DataOutcomes == {Resolve(m) : m \in Results} \cup {Reject(ProviderError)}

\* Any requests in any order, any number of them outstanding.
NextRequests ==
  \/ ReceiveInitialize("D1")
  \/ \E a \in LeanArgs : ReceiveGetMessages(a)
  \/ ReceiveClose
  \/ \E r \in 1..MaxRequests, o \in LeanInitializeOutcomes : SettleInitialize(r, o)
  \/ \E r \in 1..MaxRequests, o \in LeanOutcomes : SettleGetMessages(r, o)
  \/ \E r \in 1..MaxRequests, o \in CloseOutcomes : SettleClose(r, o)
  \/ \E r \in 1..MaxRequests : RpcReply(r)

\* The same, with the providers invoking extension point slots in between.
Next ==
  \/ NextRequests
  \/ \E p \in 1..MaxRequests, s \in Slots, d \in LeanCallbackData :
       ProviderCallback(p, s, d)

Spec == Init /\ [][Next]_vars

\* A handler that has ended is always answered: Rpc's then/catch on the
\* handler's promise runs as a microtask.  Callbacks touch no request and
\* are left out.
FairSpec ==
  Init /\ [][NextRequests]_vars /\ \A r \in 1..MaxRequests : WF_vars(RpcReply(r))

\* One initialize, then one getMessages over every range, topic set and
\* result shape: the getMessages handler as a function of its inputs.
NoneOfKind(kind) == \A r \in 1..Len(reqs) : reqs[r].kind # kind
NextData ==
  \/ \E d \in Descriptors :
       NoneOfKind("initialize") /\ NoneOfKind("getMessages") /\ ReceiveInitialize(d)
  \/ \E a \in Args : NoneOfKind("getMessages") /\ ReceiveGetMessages(a)
  \/ \E r \in 1..2, o \in InitializeOutcomes : SettleInitialize(r, o)
  \/ \E r \in 1..2, o \in DataOutcomes : SettleGetMessages(r, o)
  \/ \E r \in 1..2 : RpcReply(r)

SpecData == Init /\ [][NextData]_vars

\* initialize and close requests in any order, with providers invoking any
\* slot with any value at any time after they were given the extension point.
NextEvents ==
  \/ ReceiveInitialize("D1")
  \/ ReceiveClose
  \/ \E r \in 1..MaxRequests, o \in LeanInitializeOutcomes : SettleInitialize(r, o)
  \/ \E r \in 1..MaxRequests, o \in CloseOutcomes : SettleClose(r, o)
  \/ \E r \in 1..MaxRequests : RpcReply(r)
  \/ \E p \in 1..MaxRequests, s \in Slots, d \in CallbackData : ProviderCallback(p, s, d)

SpecEvents == Init /\ [][NextEvents]_vars

\* ---------------------------------------------------------------- useInitialDeepLinkState
\* const currentUserRequired = targetUrlState?.ds === "foxglove-data-platform";
CurrentUserRequired(target) == target.tag = "state" /\ target.ds = DataPlatform

\* unappliedUrlState?.layoutId, ?.layoutUrl, ?.time and dsParams?.eventId.
LayoutIdOf(u) == IF u.tag = "state" THEN u.layoutId ELSE Undefined
LayoutUrlOf(u) == IF u.tag = "state" THEN u.layoutUrl ELSE Undefined
TimeOf(u) == IF u.tag = "state" THEN u.time ELSE Undefined
EventIdOf(dsParams) == IF dsParams.tag = "params" THEN dsParams.items[1] ELSE Undefined

\* { ...oldState }: spreading undefined gives an object with no field set.
Spread(oldState) ==
  IF oldState.tag = "state" THEN oldState
  ELSE AppURLState(Undefined, Undefined, Undefined, Undefined, Undefined)

\* The updaters handed to setUnappliedUrlState.
ClearDataSource(oldState) ==
  [Spread(oldState) EXCEPT !.ds = Undefined, !.dsParams = Undefined]
ClearLayoutId(oldState) == [Spread(oldState) EXCEPT !.layoutId = Undefined]
ClearLayoutUrl(oldState) == [Spread(oldState) EXCEPT !.layoutUrl = Undefined]
ClearTime(oldState) == [Spread(oldState) EXCEPT !.time = Undefined]

\* The data source effect gets to its selectSource call: there is unapplied
\* state, the current user is there if one is required, and ds is set.
DataSourceApplies(c) ==
  /\ c.unappliedUrlState.tag = "state"
  /\ ~(c.currentUserRequired /\ ~c.currentUser)
  /\ Truthy(c.unappliedUrlState.ds)

\* The layout effect returns early: a layoutId is waiting for the player.
LayoutIdWaits(c) ==
  /\ Truthy(LayoutIdOf(c.unappliedUrlState))
  /\ c.currentUserRequired /\ c.playerPresence # PRESENT

\* The layout effect selects the deep link's layoutId.
LayoutIdApplies(c) ==
  Truthy(LayoutIdOf(c.unappliedUrlState)) /\ ~LayoutIdWaits(c)

\* The layout effect gets to one of its fetchLayout calls.
FetchStarts(c) == ~LayoutIdWaits(c) /\ ~c.fetchingLayout

\* url.pathname.replace(/.*\//, ""): what follows the last slash of the path.
LayoutName(url) == IF url.items = <<>> THEN "" ELSE url.items[Len(url.items)]

\* The arguments of the fetchLayout call the layout effect makes.
FetchLayoutArgs(c) ==
  IF Truthy(LayoutUrlOf(c.unappliedUrlState))
    THEN [url |-> c.unappliedUrlState.layoutUrl,
          name |-> LayoutName(c.unappliedUrlState.layoutUrl)]
    ELSE [url |-> Str("config.json"), name |-> "Preset"]

\* Mutant: the seek does not wait for the player to be present.
SeekAppliesAnyPresence(c) ==
  /\ TimeOf(c.unappliedUrlState).tag \notin {"undefined", "null"}
  /\ c.seekPlayback # 0

\* The seek effect gets to its seekPlayback call.
SeekApplies(c) ==
  /\ TimeOf(c.unappliedUrlState).tag \notin {"undefined", "null"}
  /\ c.seekPlayback # 0
  /\ c.playerPresence = PRESENT

Effects == {"dataSource", "layout", "seek"}

\* The effects whose dependencies differ between the last render and one
\* that is given the deep link `target` and reads `inputs`; `fresh` names the
\* effects that have a function among their dependencies which is a new
\* function in this render (selectSource or selectEvent; setSelectedLayoutId
\* or fetchLayout; seekPlayback).
ChangedEffects(target, inputs, fresh) ==
  {e \in Effects :
     \/ e \in fresh
     \/ e = "dataSource" /\
          \/ updated
          \/ inputs.currentUser # rendered.currentUser
          \/ CurrentUserRequired(target) # rendered.currentUserRequired
     \/ e = "layout" /\
          \/ CurrentUserRequired(target) # rendered.currentUserRequired
          \/ inputs.playerPresence # rendered.playerPresence
          \/ fetchingLayout # rendered.fetchingLayout
          \/ LayoutIdOf(unappliedUrlState) # LayoutIdOf(rendered.unappliedUrlState)
          \/ LayoutUrlOf(unappliedUrlState) # LayoutUrlOf(rendered.unappliedUrlState)
     \/ e = "seek" /\
          \/ inputs.playerPresence # rendered.playerPresence
          \/ inputs.seekPlayback # rendered.seekPlayback
          \/ updated}

\* What a render reads: the hook's argument and inputs, and its two pieces
\* of state.
Closure(target, inputs) ==
  [currentUser |-> inputs.currentUser, playerPresence |-> inputs.playerPresence,
   seekPlayback |-> inputs.seekPlayback,
   currentUserRequired |-> CurrentUserRequired(target),
   fetchingLayout |-> fetchingLayout, unappliedUrlState |-> unappliedUrlState]

\* The environment changed what the hook reads: the render is given another
\* current user, player presence or seek function, a function that is new,
\* or a deepLinks array whose first link differs in what the hook reads of
\* it.  A render that is given what the last one was given is React's own,
\* after a state update of the hook.
NewInputs(target, inputs, fresh) ==
  \/ inputs.currentUser # rendered.currentUser
  \/ inputs.playerPresence # rendered.playerPresence
  \/ inputs.seekPlayback # rendered.seekPlayback
  \/ CurrentUserRequired(target) # rendered.currentUserRequired
  \/ fresh # {}

\* The hook renders again, on a state update, on new inputs or on a new
\* deepLinks array, whose first link parses to `target`.  The effects of the
\* previous render have run by then.  seekPlayback is a new function only
\* where it was a function and is one.
Render(target, inputs, fresh) ==
  /\ pending = {}
  /\ "seek" \in fresh => (inputs.seekPlayback # 0 /\ rendered.seekPlayback # 0)
  /\ rendered' = Closure(target, inputs)
  /\ pending' = ChangedEffects(target, inputs, fresh)
  /\ changes' = IF NewInputs(target, inputs, fresh) THEN changes + 1 ELSE changes
  /\ updated' = FALSE
  /\ UNCHANGED <<unappliedUrlState, fetchingLayout, fetches,
                 sourceCalls, layoutCalls, seekCalls, rpcVars>>

\* The calls the data source effect makes.
SelectSource(u) ==
  [fn |-> "selectSource", sourceId |-> u.ds,
   args |-> [type |-> "connection", params |-> u.dsParams]]
SelectEvent(u) == [fn |-> "selectEvent", id |-> EventIdOf(u.dsParams)]

\* The pending effects run, in the order the hook declares them, on what the
\* render read; their state updaters apply to the state as it is now.
RunEffects ==
  /\ pending # {}
  /\ LET c == rendered
         ds == "dataSource" \in pending /\ DataSourceApplies(c)
         layoutId == "layout" \in pending /\ LayoutIdApplies(c)
         fetch == "layout" \in pending /\ FetchStarts(c)
         seek == "seek" \in pending /\ SeekApplies(c)
         u1 == IF ds THEN ClearDataSource(unappliedUrlState) ELSE unappliedUrlState
         u2 == IF layoutId THEN ClearLayoutId(u1) ELSE u1
         u3 == IF seek THEN ClearTime(u2) ELSE u2
     IN /\ sourceCalls' =
             IF ds THEN sourceCalls \o <<SelectSource(c.unappliedUrlState),
                                         SelectEvent(c.unappliedUrlState)>>
             ELSE sourceCalls
        /\ layoutCalls' =
             IF layoutId
               THEN Append(layoutCalls, [id |-> c.unappliedUrlState.layoutId,
                                         fetch |-> Undefined])
               ELSE layoutCalls
        /\ fetches' =
             IF fetch
               THEN fetches (+) SetToBag({[url |-> FetchLayoutArgs(c).url,
                                           name |-> FetchLayoutArgs(c).name,
                                           pc |-> "fetch"]})
               ELSE fetches
        /\ fetchingLayout' =
             IF fetch /\ Truthy(LayoutUrlOf(c.unappliedUrlState)) THEN TRUE
             ELSE fetchingLayout
        /\ seekCalls' =
             IF seek
               THEN Append(seekCalls, [time |-> c.unappliedUrlState.time,
                                       seekPlayback |-> c.seekPlayback])
               ELSE seekCalls
        /\ unappliedUrlState' = u3
        /\ updated' = (updated \/ ds \/ layoutId \/ seek)
  /\ pending' = {}
  /\ UNCHANGED <<rendered, changes, rpcVars>>

\* fetchLayout awaits four times: fetch, res.json, getLayouts, and
\* saveNewLayout or updateLayout.
NextPc(pc) ==
  CASE pc = "fetch" -> "json"
    [] pc = "json" -> "getLayouts"
    [] pc = "getLayouts" -> "save"

\* The id of the layout the layout manager keeps under a name.
SavedLayout(name) == [tag |-> "layout", items |-> <<name>>]

FetchOutcomes == {"resolve", "notOk", "reject"}

\* One awaited promise of the fetchLayout call f settles.  A rejection, or a
\* response that is not ok, makes the call throw before it touches any
\* state; after the last await the call selects the saved layout, clears
\* layoutUrl and resets fetchingLayout.
FetchLayoutStep(f, o) ==
  /\ BagIn(f, fetches)
  /\ o = "notOk" => f.pc = "fetch"
  /\ fetches' = IF o = "resolve" /\ f.pc # "save"
                  THEN (fetches (-) SetToBag({f})) (+)
                         SetToBag({[f EXCEPT !.pc = NextPc(@)]})
                  ELSE fetches (-) SetToBag({f})
  /\ IF o = "resolve" /\ f.pc = "save"
       THEN /\ layoutCalls' = Append(layoutCalls,
                                     [id |-> SavedLayout(f.name), fetch |-> f.url])
            /\ unappliedUrlState' = ClearLayoutUrl(unappliedUrlState)
            /\ fetchingLayout' = FALSE
            /\ updated' = TRUE
       ELSE UNCHANGED <<layoutCalls, unappliedUrlState, fetchingLayout, updated>>
  /\ UNCHANGED <<rendered, changes, pending, sourceCalls, seekCalls, rpcVars>>

\* The hook's first render, given a deep link that parses to one of
\* `links`: state from the deep link, every effect to run.
MountedWith(links) ==
  /\ InitRpc
  /\ unappliedUrlState \in links
  /\ fetchingLayout = FALSE
  /\ updated = FALSE
  /\ \E inputs \in HookInputs :
       rendered = [currentUser |-> inputs.currentUser,
                   playerPresence |-> inputs.playerPresence,
                   seekPlayback |-> inputs.seekPlayback,
                   currentUserRequired |-> CurrentUserRequired(unappliedUrlState),
                   fetchingLayout |-> FALSE,
                   unappliedUrlState |-> unappliedUrlState]
  /\ changes = 0
  /\ pending = Effects
  /\ fetches = EmptyBag
  /\ sourceCalls = <<>>
  /\ layoutCalls = <<>>
  /\ seekCalls = <<>>

InitHook == MountedWith(TargetUrlStates)

\* The environment changes the inputs of the hook MaxChanges times at most;
\* React's own renders are not limited.
NextHook ==
  \/ \E target \in LaterUrlStates,
        inputs \in HookInputs, fresh \in SUBSET Effects :
       /\ NewInputs(target, inputs, fresh) => changes < MaxChanges
       /\ Render(target, inputs, fresh)
  \/ RunEffects
  \/ \E f \in BagToSet(fetches), o \in FetchOutcomes : FetchLayoutStep(f, o)

SpecHook == InitHook /\ [][NextHook]_vars

\* The renders in which the player presence and the seek function change,
\* or neither does (React renders the hook again after a state update): the
\* current user and the deepLinks array stay what the last render read.
\* Player presence and seek function change MaxSeekChanges times at most.
NextHookSeek ==
  \/ \E target \in LaterUrlStates,
        inputs \in HookInputs, fresh \in SUBSET Effects :
       /\ NewInputs(target, inputs, fresh) => changes < MaxSeekChanges
       /\ CurrentUserRequired(target) = rendered.currentUserRequired
       /\ inputs.currentUser = rendered.currentUser
       /\ Render(target, inputs, fresh)
  \/ RunEffects
  \/ \E f \in BagToSet(fetches), o \in FetchOutcomes : FetchLayoutStep(f, o)

\* The hook mounted with a deep link that carries a time, under any changes
\* of player presence and seek function.  React runs the effects of a
\* committed render.
FairSpecHook ==
  MountedWith(SeekUrlStates) /\ [][NextHookSeek]_vars /\ WF_vars(RunEffects)

\* ---------------------------------------------------------------- properties
Ids == 1..Len(reqs)
IsGet(r) == reqs[r].kind = "getMessages"
Resolved(r) == reqs[r].res.st = "resolve"
Rejected(r) == reqs[r].res.st = "reject"
Done(r) == reqs[r].pc = "done"
Range(s) == {s[i] : i \in 1..Len(s)}
Present(x) == x.tag = "array"
HasOtherKind(result) == Present(result.parsedMessages) \/ Present(result.bobjects)
RawRecords(result) ==
  IF Present(result.rosBinaryMessages) THEN result.rosBinaryMessages.items ELSE <<>>
ErrorReply(m, e) ==
  /\ IsError(m)
  /\ m.data.name = e.name
  /\ m.data.message = e.message
  /\ m.transfer = <<>>
  /\ "messages" \notin DOMAIN m.data

\* C1: a getMessages request whose provider result carries a non-null
\* parsedMessages or bobjects field (with or without rosBinaryMessages) ends
\* in an error reply; no messages and no transfer list are sent for it.
C1_ContractViolationFails ==
  \A r \in Ids :
    (IsGet(r) /\ Resolved(r) /\ HasOtherKind(reqs[r].res.value)) =>
      /\ reqs[r].out.st = "throw"
      /\ \A i \in 1..Len(replies[r]) : ErrorReply(replies[r][i], ContractError)
      /\ Done(r) => Len(replies[r]) = 1

C1_Witness ==
  \E r \in Ids :
    /\ IsGet(r) /\ Resolved(r) /\ Done(r)
    /\ Present(reqs[r].res.value.bobjects)
    /\ ~Present(reqs[r].res.value.parsedMessages)
    /\ Len(RawRecords(reqs[r].res.value)) = 2
    /\ Len(replies[r]) = 1 /\ IsError(replies[r][1])

InitializeCount == Cardinality({r \in Ids : reqs[r].kind = "initialize"})

\* C2: with initialize requested exactly once, every successful getMessages
\* reply carries exactly the provider's rosBinaryMessages records of that
\* request, in the provider's order, and comes from a result without a
\* parsedMessages or bobjects field.
C2_RepliesAreRawRecords ==
  InitializeCount = 1 =>
    \A r \in Ids : \A i \in 1..Len(replies[r]) :
      (IsGet(r) /\ IsSuccess(replies[r][i])) =>
        /\ Resolved(r)
        /\ ~HasOtherKind(reqs[r].res.value)
        /\ replies[r][i].data.messages = RawRecords(reqs[r].res.value)

C2_Witness ==
  /\ InitializeCount = 1
  /\ \E q \in Ids, r \in Ids :
       /\ q < r /\ IsGet(q) /\ IsGet(r) /\ Done(q) /\ Done(r)
       /\ IsSuccess(replies[q][1]) /\ IsSuccess(replies[r][1])
       /\ Len(replies[q][1].data.messages) = 2
       /\ Len(replies[r][1].data.messages) = 1

NoDuplicates(s) == \A i \in 1..Len(s), j \in 1..Len(s) : s[i] = s[j] => i = j

\* C3: the transfer list of a successful getMessages reply has no duplicates
\* and holds exactly the buffers the replied records reference.
C3_TransferListDeduplicated ==
  \A r \in Ids : \A i \in 1..Len(replies[r]) :
    (IsGet(r) /\ IsSuccess(replies[r][i])) =>
      /\ NoDuplicates(replies[r][i].transfer)
      /\ Range(replies[r][i].transfer) =
           {replies[r][i].data.messages[k].message :
              k \in 1..Len(replies[r][i].data.messages)}

C3_Witness ==
  \E r \in Ids :
    /\ IsGet(r) /\ Done(r) /\ IsSuccess(replies[r][1])
    /\ Len(replies[r][1].data.messages) = 2
    /\ replies[r][1].data.messages[1].message = replies[r][1].data.messages[2].message
    /\ Len(replies[r][1].transfer) = 1

NoInitializeBetween(q, r) ==
  \A k \in Ids : (q < k /\ k < r) => reqs[k].kind # "initialize"

\* C4: a getMessages call the provider rejects is answered with that failure,
\* and a later getMessages request still goes to the same provider and, when
\* the provider resolves it with a raw-only result, is answered successfully.
C4_ProviderSurvivesFailure ==
  \A q \in Ids :
    (IsGet(q) /\ Rejected(q) /\ Done(q)) =>
      /\ Len(replies[q]) = 1
      /\ ErrorReply(replies[q][1], reqs[q].res.value)
      /\ \A r \in Ids :
           (q < r /\ IsGet(r) /\ NoInitializeBetween(q, r)) =>
             /\ reqs[r].prov = reqs[q].prov
             /\ (Done(r) /\ Resolved(r) /\ ~HasOtherKind(reqs[r].res.value)) =>
                  (Len(replies[r]) = 1 /\ IsSuccess(replies[r][1]))

C4_Witness ==
  \E q \in Ids, r \in Ids :
    /\ q < r /\ IsGet(q) /\ IsGet(r)
    /\ Rejected(q) /\ Done(q) /\ IsError(replies[q][1])
    /\ Resolved(r) /\ Done(r) /\ IsSuccess(replies[r][1])
    /\ reqs[r].prov = reqs[q].prov

Failing(r) ==
  \/ Rejected(r)
  \/ reqs[r].prov = 0
  \/ IsGet(r) /\ Resolved(r) /\ HasOtherKind(reqs[r].res.value)
FailureOf(r) ==
  IF Rejected(r) THEN reqs[r].res.value
  ELSE IF reqs[r].prov = 0 THEN TypeError(reqs[r].kind) ELSE ContractError
FailureAnswered ==
  \A r \in Ids :
    Failing(r) =>
      /\ Len(replies[r]) <= 1
      /\ \A i \in 1..Len(replies[r]) : ErrorReply(replies[r][i], FailureOf(r))
      /\ Done(r) => Len(replies[r]) = 1

\* C5: every request whose handling fails (the provider rejects, the call
\* throws, or the result breaks the raw-only contract) gets exactly one
\* reply, an error reply carrying that error: never a success, never none.
C5_EveryFailureAnswered ==
  /\ []FailureAnswered
  /\ \A r \in 1..MaxRequests :
       (r \in Ids /\ Failing(r)) ~> (r \in Ids /\ Len(replies[r]) = 1)

C5_Witness ==
  \E a \in Ids, b \in Ids, c \in Ids :
    /\ reqs[a].kind = "initialize" /\ Rejected(a) /\ Done(a) /\ IsError(replies[a][1])
    /\ reqs[b].kind = "close" /\ Rejected(b) /\ Done(b) /\ IsError(replies[b][1])
    /\ IsGet(c) /\ Resolved(c) /\ Done(c) /\ IsError(replies[c][1])

\* C6: an initialize request builds one provider from its descriptor, calls
\* that provider's initialize once, and is answered only once that call has
\* settled; a successful reply carries exactly the metadata it resolved with.
C6_InitializeRepliesMetadata ==
  /\ Len(providers) = InitializeCount
  /\ \A r \in Ids :
       reqs[r].kind = "initialize" =>
         /\ reqs[r].prov \in 1..Len(providers)
         /\ providers[reqs[r].prov].desc = reqs[r].arg.childDescriptor
         /\ providers[reqs[r].prov].initCalls = 1
         /\ Len(replies[r]) <= 1
         /\ \A i \in 1..Len(replies[r]) :
              /\ reqs[r].res.st \in {"resolve", "reject"}
              /\ IsSuccess(replies[r][i]) =>
                   (Resolved(r) /\ replies[r][i].data = reqs[r].res.value)
         /\ (Done(r) /\ Resolved(r)) =>
              (Len(replies[r]) = 1 /\ IsSuccess(replies[r][1]))

C6_Witness ==
  \E r \in Ids :
    /\ reqs[r].kind = "initialize" /\ reqs[r].arg.childDescriptor = "D2"
    /\ Resolved(r) /\ Done(r)
    /\ replies[r] = <<RpcRespond(r, Return([name |-> "M2"], <<>>))>>

EventMessage(type, data) ==
  [topic |-> "extensionPointCallback", data |-> [type |-> type, data |-> data]]

\* C7: when a provider invokes reportMetadataCallback while its initialize
\* is still pending, the extensionPointCallback message is sent in that very
\* step: initialize is still pending afterwards and no request was needed.
C7_CallbackDuringInitialize ==
  [][\A p \in 1..MaxRequests, d \in CallbackData :
       (/\ InitializePending(p)
        /\ invoked' = Append(invoked,
             [prov |-> p, slot |-> "reportMetadataCallback", data |-> d]))
       => /\ events' = Append(events, EventMessage("reportMetadataCallback", d))
          /\ reqs' = reqs]_vars

C7_Witness ==
  \E i \in 1..Len(invoked) :
    /\ invoked[i].slot = "reportMetadataCallback"
    /\ InitializePending(invoked[i].prov)
    /\ ~GetMessagesIssued
    /\ Len(events) = Len(invoked)
    /\ events[i] = EventMessage("reportMetadataCallback", invoked[i].data)

\* C8: the i-th slot invocation made by a provider is the i-th
\* extensionPointCallback message: tagged with the slot's name, carrying the
\* value passed; none dropped, none added.
C8_OneEventPerInvocation ==
  /\ Len(events) = Len(invoked)
  /\ \A i \in 1..Len(events) :
       events[i] = EventMessage(invoked[i].slot, invoked[i].data)

C8_Witness ==
  \E i \in 1..Len(invoked) :
    /\ invoked[i].slot = "notifyPlayerManager"
    /\ invoked[i].data = [v |-> 2]
    /\ events[i].data.type = "notifyPlayerManager"

CallsOf(r) == {i \in 1..Len(calls) : calls[i].req = r}

\* C9: each getMessages request that reaches a provider makes exactly one
\* provider.getMessages call, with the request's start and end as given
\* (also when start > end) and its topics as the rosBinaryMessages filter,
\* the only filter; a rejected call is not made again.
C9_RangePassedThrough ==
  \A r \in Ids :
    IsGet(r) =>
      IF reqs[r].prov = 0 THEN CallsOf(r) = {}
      ELSE /\ Cardinality(CallsOf(r)) = 1
           /\ \A i \in CallsOf(r) :
                /\ calls[i].prov = reqs[r].prov
                /\ calls[i].args.start = reqs[r].arg.start
                /\ calls[i].args.end = reqs[r].arg.end
                /\ DOMAIN calls[i].args.filter = {"rosBinaryMessages"}
                /\ calls[i].args.filter.rosBinaryMessages = reqs[r].arg.topics

C9_Witness ==
  \E r \in Ids :
    /\ IsGet(r) /\ Rejected(r) /\ Done(r)
    /\ reqs[r].arg.start > reqs[r].arg.end
    /\ reqs[r].arg.topics = {"topicA", "topicB"}
    /\ Cardinality(CallsOf(r)) = 1

\* C10: once a close request has resolved, the endpoint sends no further
\* extensionPointCallback message, even if the closed provider invokes a slot.
C10_NoEventAfterClose ==
  [][(\E p \in 1..Len(providers) : CloseResolved(p)) => events' = events]_vars

\* C11: once a close request has resolved, no later request is forwarded to
\* the closed provider.
C11_NoRequestAfterClose ==
  [][\A p \in 1..Len(providers) :
       (CloseResolved(p) /\ Len(reqs') = Len(reqs) + 1)
         => reqs'[Len(reqs')].prov # p]_vars

\* C12 as stated: the factory is invoked at most once over any sequence of
\* requests, repeated initialize requests included.
C12_FactoryInvokedAtMostOnce == Len(providers) <= 1

\* C12, amended: the factory is not invoked before the first initialize
\* request and is invoked once per initialize request; `provider` holds the
\* provider built by the latest one, so a repeated initialize replaces it.
C12_FactoryInvokedPerInitialize ==
  /\ Len(providers) = Cardinality({r \in Ids : reqs[r].kind = "initialize"})
  /\ provider = Len(providers)
  /\ \A r \in Ids :
       reqs[r].kind = "initialize" =>
         reqs[r].prov = Cardinality({q \in 1..r : reqs[q].kind = "initialize"})

C12_Witness ==
  /\ Len(reqs) = 3
  /\ reqs[1].kind = "getMessages" /\ reqs[1].prov = 0
  /\ reqs[2].kind = "initialize" /\ reqs[3].kind = "initialize"
  /\ provider = 2

\* C13: with several getMessages requests outstanding and providers pushing
\* callbacks in between, the messages and the transfer list of every
\* successful reply are built from the result provider.getMessages resolved
\* with for that same request, and every slot invocation has its one event.
C13_RepliesFromOwnResult ==
  /\ \A r \in Ids : \A i \in 1..Len(replies[r]) :
       (IsGet(r) /\ IsSuccess(replies[r][i])) =>
         /\ Resolved(r)
         /\ replies[r][i].data = [messages |-> RawRecords(reqs[r].res.value)]
         /\ Range(replies[r][i].transfer) =
              {RawRecords(reqs[r].res.value)[k].message :
                 k \in 1..Len(RawRecords(reqs[r].res.value))}
  /\ Len(events) = Len(invoked)
  /\ \A i \in 1..Len(invoked) :
       events[i] = EventMessage(invoked[i].slot, invoked[i].data)

C13_Witness ==
  \E q \in Ids, r \in Ids :
    /\ q < r /\ IsGet(q) /\ IsGet(r)
    /\ reqs[q].pc = "awaiting" /\ CallsOf(q) # {}
    /\ Done(r) /\ IsSuccess(replies[r][1])
    /\ replies[r][1].data.messages = <<Rec("buf2")>>
    /\ replies[r][1].transfer = <<"buf2">>
    /\ Len(events) = 1

\* A step of a getMessages handler: the request is received, its provider
\* call settles, or it is answered.
GetMessagesStep ==
  \/ /\ Len(reqs') = Len(reqs) + 1
     /\ reqs'[Len(reqs')].kind = "getMessages"
  \/ /\ Len(reqs') = Len(reqs)
     /\ \E r \in Ids : IsGet(r) /\ reqs'[r] # reqs[r]

\* C14: no step of a getMessages request, whether it ends in success, in a
\* provider error or in a contract violation, changes the provider reference,
\* builds a provider, calls initialize or close on one, or sends an
\* extensionPointCallback event.
C14_GetMessagesLeavesLifecycle ==
  [][GetMessagesStep =>
       /\ provider' = provider
       /\ providers' = providers
       /\ events' = events
       /\ invoked' = invoked]_vars

C14_Witness ==
  /\ Len(reqs) = 3 /\ reqs[1].kind = "initialize"
  /\ IsGet(2) /\ Done(2) /\ Rejected(2) /\ IsError(replies[2][1])
  /\ IsGet(3) /\ Done(3) /\ Resolved(3) /\ HasOtherKind(reqs[3].res.value)
  /\ IsError(replies[3][1])
  /\ provider = 1
  /\ providers = <<[GetDataProvider("D1") EXCEPT !.initCalls = 1]>>

\* C15: from the second initialize request on, `provider` holds the provider
\* built last; every getMessages and close request received from then on is
\* forwarded to that provider only, no replaced provider receives a further
\* call from the endpoint (close included), and a slot invocation by any
\* provider, replaced ones included, still sends its event.
C15_SecondProviderReplacesFirst ==
  [][Len(providers) >= 2 =>
       /\ provider = Len(providers)
       /\ (Len(reqs') = Len(reqs) + 1
             /\ reqs'[Len(reqs')].kind \in {"getMessages", "close"})
            => reqs'[Len(reqs')].prov = Len(providers)
       /\ Len(calls') = Len(calls) + 1 => calls'[Len(calls')].prov = Len(providers)
       /\ \A p \in 1..(Len(providers) - 1) : providers'[p] = providers[p]
       /\ Len(invoked') = Len(invoked) + 1
            => events' = Append(events, EventMessage(invoked'[Len(invoked')].slot,
                                                     invoked'[Len(invoked')].data))]_vars

C15_Witness ==
  /\ Len(reqs) = 3
  /\ reqs[1].kind = "initialize" /\ reqs[2].kind = "initialize"
  /\ reqs[3].kind = "close" /\ reqs[3].prov = 2 /\ Done(3)
  /\ providers[1].closeCalls = 0 /\ providers[2].closeCalls = 1
  /\ Len(invoked) = 1 /\ invoked[1].prov = 1
  /\ Len(events) = 1

InitializeBefore(r) == \E q \in 1..(r - 1) : reqs[q].kind = "initialize"

\* C16: a getMessages or close request received before any initialize
\* request reaches no provider and is answered with the error of calling a
\* method on the unassigned provider variable; as long as no initialize was
\* requested the endpoint stays as constructed, and a getMessages request
\* received after a later initialize is forwarded to the provider that
\* initialize built and answered from its result.
C16_EarlyRequestFailsAlone ==
  /\ \A r \in Ids :
       (reqs[r].kind \in {"getMessages", "close"} /\ ~InitializeBefore(r)) =>
         /\ reqs[r].prov = 0
         /\ reqs[r].res = NoCall
         /\ CallsOf(r) = {}
         /\ reqs[r].out = Throw(TypeError(reqs[r].kind))
         /\ \A i \in 1..Len(replies[r]) :
              ErrorReply(replies[r][i], TypeError(reqs[r].kind))
  /\ InitializeCount = 0 =>
       provider = 0 /\ providers = <<>> /\ calls = <<>> /\ events = <<>>
  /\ \A r \in Ids :
       (IsGet(r) /\ InitializeBefore(r)) =>
         /\ reqs[r].prov = Cardinality({q \in 1..r : reqs[q].kind = "initialize"})
         /\ \E i \in CallsOf(r) : calls[i].prov = reqs[r].prov
         /\ (Done(r) /\ Resolved(r) /\ ~HasOtherKind(reqs[r].res.value)) =>
              /\ IsSuccess(replies[r][1])
              /\ replies[r][1].data.messages = RawRecords(reqs[r].res.value)

C16_Witness ==
  /\ Len(reqs) = 3
  /\ IsGet(1) /\ Done(1) /\ IsError(replies[1][1])
  /\ reqs[2].kind = "initialize" /\ Done(2) /\ Resolved(2)
  /\ IsGet(3) /\ Done(3) /\ reqs[3].prov = 1
  /\ IsSuccess(replies[3][1])
  /\ Len(replies[3][1].data.messages) = 2

\* C17: a getMessages request whose provider result has no rosBinaryMessages,
\* no parsedMessages and no bobjects field does not fail: it is answered with
\* a success reply whose messages sequence and transfer list are empty.
C17_EmptyResultSucceeds ==
  \A r \in Ids :
    (IsGet(r) /\ Resolved(r)
       /\ reqs[r].res.value = MessageBatch(Undefined, Undefined, Undefined)) =>
      /\ reqs[r].out = Return([messages |-> <<>>], <<>>)
      /\ \A i \in 1..Len(replies[r]) :
           /\ IsSuccess(replies[r][i])
           /\ replies[r][i].data.messages = <<>>
           /\ replies[r][i].transfer = <<>>
      /\ Done(r) => Len(replies[r]) = 1

C17_Witness ==
  \E r \in Ids :
    /\ IsGet(r) /\ Resolved(r) /\ Done(r)
    /\ reqs[r].res.value = MessageBatch(Undefined, Undefined, Undefined)
    /\ Len(replies[r]) = 1 /\ IsSuccess(replies[r][1])

\* The layout fetched from the deep link's layoutUrl has been selected.
UrlLayoutSelected ==
  \E i \in 1..Len(layoutCalls) : layoutCalls[i].fetch.tag = "url"
UrlFetchInFlight == \E f \in BagToSet(fetches) : f.url.tag = "url"
\* The step makes a fetchLayout call with the url `url`.
FetchStarted(url) ==
  LET f == [url |-> url, name |-> IF url = Str("config.json") THEN "Preset"
                                   ELSE LayoutName(url), pc |-> "fetch"]
  IN CopiesIn(f, fetches') > CopiesIn(f, fetches)

\* C18: once the layout fetched from the deep link's layoutUrl has been
\* selected, no fetch of config.json is started and no further layout is
\* selected; and while a layoutUrl fetch is in flight no fetch is started.
C18_UrlLayoutSelectedLast ==
  [][/\ UrlLayoutSelected =>
          /\ ~FetchStarted(Str("config.json"))
          /\ layoutCalls' = layoutCalls
     /\ UrlFetchInFlight =>
          \A url \in LayoutUrls \cup {Str("config.json")} :
            url # Undefined => ~FetchStarted(url)]_vars

\* C19: selectSource and selectEvent are called at most once each; once
\* they were called the ds and dsParams portions of the unapplied state are
\* cleared for good; and they are never called for foxglove-data-platform
\* while no current user is present.
C19_DataSourceSelectedOnce ==
  /\ [](/\ Len(sourceCalls) \in {0, 2}
        /\ Len(sourceCalls) = 2 =>
             /\ sourceCalls[1].fn = "selectSource"
             /\ sourceCalls[2].fn = "selectEvent"
             /\ unappliedUrlState.ds = Undefined
             /\ unappliedUrlState.dsParams = Undefined)
  /\ [][sourceCalls' # sourceCalls =>
          ~(sourceCalls'[1].sourceId = DataPlatform /\ ~rendered.currentUser)]_vars

\* The fetchLayout("config.json", "Preset") calls in flight.
PresetCalls ==
  BagCardinality([f \in {g \in BagToSet(fetches) : g.url = Str("config.json")}
                    |-> fetches[f]])

SeekReady ==
  /\ TimeOf(unappliedUrlState) # Undefined
  /\ rendered.playerPresence = PRESENT
  /\ rendered.seekPlayback # 0
SeekDone == Len(seekCalls) = 1 /\ TimeOf(unappliedUrlState) = Undefined

\* C20: seekPlayback is called at most once, only on a render that read a
\* present player and a seek function, and with the time of the deep link
\* the hook was mounted with: the time portion of the unapplied state starts
\* as that link's, is passed to the call, and is only ever cleared.  It is
\* cleared once the call was made; and whenever the last render read a
\* present player and a seek function while the time is unapplied, the seek
\* is eventually performed and the time cleared.
C20_SeekOnceWhenReady ==
  /\ [](/\ Len(seekCalls) <= 1
        /\ Len(seekCalls) = 1 => TimeOf(unappliedUrlState) = Undefined)
  /\ [][seekCalls' # seekCalls =>
          /\ rendered.playerPresence = PRESENT /\ rendered.seekPlayback # 0
          /\ TimeOf(unappliedUrlState).tag = "time"
          /\ seekCalls' = <<[time |-> TimeOf(unappliedUrlState),
                             seekPlayback |-> rendered.seekPlayback]>>]_vars
  /\ [][TimeOf(unappliedUrlState') \in {TimeOf(unappliedUrlState), Undefined}]_vars
  /\ (SeekReady ~> SeekDone)

\* The seek was made on the third render after the first (React's own after
\* the layout was selected, then the player INITIALIZING, then PRESENT), with
\* four fetchLayout("config.json", "Preset") calls in flight.
C20_Witness ==
  /\ seekCalls = <<[time |-> Time(5), seekPlayback |-> 1]>>
  /\ TimeOf(unappliedUrlState) = Undefined
  /\ layoutCalls = <<[id |-> Str("layout1"), fetch |-> Undefined]>>
  /\ sourceCalls = <<>>
  /\ PresetCalls = 4
  /\ changes = 2 /\ rendered.playerPresence = PRESENT
  /\ pending = {} /\ updated

====
